---- MODULE Spec2Model ----
(***************************************************************************)
(* Asset CRUD handlers (create, get, list, update, delete) over three      *)
(* stores: the relational table file_metadata, the document container     *)
(* and the blob container.  Every handler is a pure operator from the     *)
(* store state, the request and the outcome of each outbound call to the  *)
(* response, the calls made and the new store state; the actions apply    *)
(* the handlers to requests drawn from small sets.                        *)
(***************************************************************************)
EXTENDS Integers, Sequences, FiniteSets, TLC

\* ------------------------------------------------------------------ bounds
\* number of ids uuid4 can hand out in one behaviour
MaxIds == 2
\* requests served in one behaviour of Spec
MaxRequests == 2
\* requests served (and logged) in one behaviour of SpecSeq
MaxLog == 4
\* requests started in a concurrent execution
MaxStarted == 2

UuidPool == <<"u1", "u2", "u3", "u4">>
Ids == {UuidPool[i] : i \in 1..MaxIds}

\* ------------------------------------------------------------------ values
\* A JSON / Python / SQL value: kind, an integer payload and a string payload
\* (a sequence of tokens: one character, or one opaque word, per token).
Absent == [kind |-> "absent", n |-> 0, s |-> <<>>]
None == [kind |-> "none", n |-> 0, s |-> <<>>]
JInt(n) == [kind |-> "int", n |-> n, s |-> <<>>]
JStr(s) == [kind |-> "str", n |-> 0, s |-> s]
\* a float with integral part n (truncated towards zero) and fraction digits s;
\* s = <<"inf">> is Infinity and s = <<"nan">> is NaN
JFloat(n, s) == [kind |-> "float", n |-> n, s |-> s]
JTrue == [kind |-> "bool", n |-> 1, s |-> <<>>]
\* the application clock's ISO string and the database clock's timestamp at tick t
IsoTime(t) == [kind |-> "isotime", n |-> t, s |-> <<>>]
DbTime(t) == [kind |-> "dbtime", n |-> t, s |-> <<>>]

\* Python truthiness, as used by `not x` and all([...])
Truthy(v) ==
    CASE v.kind = "none" -> FALSE
      [] v.kind = "absent" -> FALSE
      [] v.kind = "int" -> v.n # 0
      [] v.kind = "bool" -> v.n # 0
      [] v.kind = "str" -> v.s # <<>>
      [] v.kind = "float" -> ~(v.n = 0 /\ v.s \in {<<>>, <<"0">>})
      [] OTHER -> TRUE

Digits == <<"0", "1", "2", "3", "4", "5", "6", "7", "8", "9">>
IsDigit(c) == \E i \in 1..Len(Digits) : Digits[i] = c
DigitVal(c) == (CHOOSE i \in 1..Len(Digits) : Digits[i] = c) - 1

RECURSIVE LStrip(_)
LStrip(s) == IF s # <<>> /\ Head(s) = " " THEN LStrip(Tail(s)) ELSE s
RECURSIVE RStrip(_)
RStrip(s) ==
    IF s # <<>> /\ s[Len(s)] = " " THEN RStrip(SubSeq(s, 1, Len(s) - 1)) ELSE s

\* digits with single underscores between them, as int() accepts
RECURSIVE DigitsOk(_, _)
DigitsOk(s, prevDigit) ==
    IF s = <<>> THEN prevDigit
    ELSE IF IsDigit(Head(s)) THEN DigitsOk(Tail(s), TRUE)
    ELSE IF Head(s) = "_" THEN prevDigit /\ Tail(s) # <<>> /\ DigitsOk(Tail(s), FALSE)
    ELSE FALSE

RECURSIVE DigitsValue(_, _)
DigitsValue(s, acc) ==
    IF s = <<>> THEN acc
    ELSE IF Head(s) = "_" THEN DigitsValue(Tail(s), acc)
    ELSE DigitsValue(Tail(s), 10 * acc + DigitVal(Head(s)))

\* int(<str>): strip whitespace, optional sign, decimal digits
ParseInt(str) ==
    LET t == RStrip(LStrip(str))
        signed == t # <<>> /\ Head(t) \in {"-", "+"}
        body == IF signed THEN Tail(t) ELSE t
    IN  IF DigitsOk(body, FALSE)
        THEN [err |-> "", n |-> IF signed /\ Head(t) = "-"
                                 THEN 0 - DigitsValue(body, 0)
                                 ELSE DigitsValue(body, 0)]
        ELSE [err |-> "ValueError", n |-> 0]

\* int(v) for a JSON value v: the integer, or the exception raised
PyInt(v) ==
    CASE v.kind = "int" -> [err |-> "", n |-> v.n]
      [] v.kind = "bool" -> [err |-> "", n |-> v.n]
      [] v.kind = "float" ->
           IF v.s = <<"inf">> THEN [err |-> "OverflowError", n |-> 0]
           ELSE IF v.s = <<"nan">> THEN [err |-> "ValueError", n |-> 0]
           ELSE [err |-> "", n |-> v.n]
      [] v.kind = "str" -> ParseInt(v.s)
      [] OTHER -> [err |-> "TypeError", n |-> 0]

\* ------------------------------------------------------------------- dicts
\* A JSON object / Python dict: a total function over Keys, Absent where the
\* key is not present.
Keys == {"id", "fileName", "fileType", "fileSize", "blobUrl", "status",
         "uploadDate", "uploadUrl", "deleted", "owner"}
EmptyDict == [k \in Keys |-> Absent]
KeysOf(d) == {k \in Keys : d[k] # Absent}
\* d.get(k): None when the key is missing
DictGet(d, k) == IF d[k] = Absent THEN None ELSE d[k]
\* d.update(e)
DictUpdate(d, e) == [k \in Keys |-> IF e[k] # Absent THEN e[k] ELSE d[k]]
Dict1(k, v) == [EmptyDict EXCEPT ![k] = v]

\* -------------------------------------------------------------------- auth
\* An Optional[str]: <<>> is None (variable unset, header not sent), <<x>> is x.
Falsy(opt) == opt = <<>> \/ opt = <<"">>

\* only an unset key opens the gate: an empty API_KEY is taken as a key
validate_api_key_unset_only(configured_key, api_key) ==
    IF configured_key = <<>> THEN TRUE
    ELSE IF Falsy(api_key) THEN FALSE
    ELSE api_key = configured_key

validate_api_key(configured_key, api_key) ==
    IF Falsy(configured_key) THEN TRUE
    ELSE IF Falsy(api_key) THEN FALSE
    ELSE api_key = configured_key

\* require_api_key raises AuthenticationError exactly when this is FALSE
require_api_key(configured_key, api_key) == validate_api_key(configured_key, api_key)

\* --------------------------------------------------------------- responses
Reply(status, text) ==
    [status |-> status, text |-> text, obj |-> EmptyDict, items |-> <<>>, exc |-> ""]
JsonReply(status, obj) ==
    [status |-> status, text |-> "", obj |-> obj, items |-> <<>>, exc |-> ""]
ListReply(status, items) ==
    [status |-> status, text |-> "", obj |-> EmptyDict, items |-> items, exc |-> ""]
\* an exception no handler catches leaves main(); the host answers 500
Unhandled(exc) ==
    [status |-> 500, text |-> "", obj |-> EmptyDict, items |-> <<>>, exc |-> exc]

\* one outbound call of a handler and whether it returned (ok) or raised
Call(api, ok) == [api |-> api, ok |-> ok]
\* what a handler run yields: the response, the calls made in order, the stores after
Outcome(resp, calls, st) == [resp |-> resp, calls |-> calls, st |-> st]

\* ------------------------------------------------------------ blob storage
STORAGE_ACCOUNT == "acct"
get_storage_container == "assets"

\* f"https://{account}.blob.core.windows.net/{container}/{blob_name}"
build_blob_url(container, blob_name) ==
    <<"https://", STORAGE_ACCOUNT, ".blob.core.windows.net/", container, "/">> \o blob_name

\* f"{asset_id}/{file_name}"
BlobPath(asset_id, file_name) == <<asset_id, "/">> \o file_name

\* container_client.list_blobs(name_starts_with=f"{asset_id}/")
ListBlobs(blobs, asset_id) ==
    {b \in blobs : Len(b) >= 2 /\ b[1] = asset_id /\ b[2] = "/"}

\* --------------------------------------------------------- relational store
Columns == {"id", "user_id", "file_name", "file_type", "file_size", "blob_url",
            "status", "created_at"}

\* INSERT INTO file_metadata (...) VALUES (:id, NULL, ..., 'pending', SYSUTCDATETIME())
SqlInsert(table, p, now) ==
    table \cup {[id |-> p.id, user_id |-> None, file_name |-> p.file_name,
                 file_type |-> p.file_type, file_size |-> p.file_size,
                 blob_url |-> p.blob_url, status |-> JStr(<<"pending">>),
                 created_at |-> DbTime(now)]}

\* the WHERE clause is missing
SqlUpdateNoWhere(table, id, sets) ==
    {[c \in Columns |-> IF c \in DOMAIN sets /\ sets[c] # Absent THEN sets[c] ELSE r[c]] :
        r \in table}

\* UPDATE file_metadata SET <c = :c for the columns c present in sets> WHERE id = :id
SqlUpdate(table, id, sets) ==
    {IF r.id = id
     THEN [c \in Columns |-> IF c \in DOMAIN sets /\ sets[c] # Absent THEN sets[c] ELSE r[c]]
     ELSE r : r \in table}

\* the WHERE clause is missing
SqlDeleteNoWhere(table, id) == {}
\* the WHERE clause has <> for =
SqlDeleteInverted(table, id) == {r \in table : r.id = id}

\* DELETE FROM file_metadata WHERE id = :id
SqlDelete(table, id) == {r \in table : r.id # id}

\* SELECT id, file_name AS fileName, ... created_at AS uploadDate: one row as a dict
RowJson(r) ==
    [k \in Keys |->
        CASE k = "id" -> r.id
          [] k = "fileName" -> r.file_name
          [] k = "fileType" -> r.file_type
          [] k = "fileSize" -> r.file_size
          [] k = "blobUrl" -> r.blob_url
          [] k = "status" -> r.status
          [] k = "uploadDate" -> r.created_at
          [] OTHER -> Absent]

\* ... FROM file_metadata WHERE id = :id
SqlSelectById(table, id) == {r \in table : r.id = id}

\* ----------------------------------------------------------- document store
\* container.read_item(item=id, partition_key=id): the item, or None when
\* CosmosResourceNotFoundError is raised.  Every caller tests the result with
\* `or` only, where None and {} are alike: None is rendered as the empty dict.
get_asset_doc(container, asset_id) ==
    IF \E d \in container : d["id"] = JStr(<<asset_id>>)
    THEN CHOOSE d \in container : d["id"] = JStr(<<asset_id>>)
    ELSE EmptyDict

\* container.replace_item in place of upsert_item: an item that is not there is
\* not created
replace_asset_doc(container, doc) ==
    IF \E d \in container : d["id"] = doc["id"]
    THEN {d \in container : d["id"] # doc["id"]} \cup {doc}
    ELSE container

\* container.upsert_item(doc): replaces the item with the same id
upsert_asset_doc(container, doc) ==
    {d \in container : d["id"] # doc["id"]} \cup {doc}

\* container.delete_item(item=id, partition_key=id), not-found swallowed
delete_asset_doc(container, asset_id) ==
    {d \in container : d["id"] # JStr(<<asset_id>>)}

\* ------------------------------------------------------------------ state
VARIABLES
    API_KEY,   \* os.getenv('API_KEY'), an Optional[str] fixed for the process
    sql,       \* the rows of file_metadata
    cosmos,    \* the items of the document container
    blobs,     \* the names of the blobs in the storage container
    issued,    \* the ids uuid4 has returned
    served,    \* number of requests served
    log,       \* the exchanges served, newest last: [op, req, resp, calls]
    CONTAINER, \* cosmos_client._CONTAINER: 0 for None, else the handle constructed
    db_engine, \* sql_client._db_engine: 0 for None, else the handle constructed
    built,     \* per kind of handle, how many have been constructed in the process
    pc         \* per worker thread, the request it runs and where it stands in main()

\* the process-wide handles and the threads; they are followed step by step in
\* SpecConc and left alone where a request is served as one step
proc == <<CONTAINER, db_engine, built, pc>>

vars == <<API_KEY, sql, cosmos, blobs, issued, served, log, CONTAINER, db_engine, built, pc>>

Stores == [sql |-> sql, cosmos |-> cosmos, blobs |-> blobs, issued |-> issued]

Request(api_key, id, body) == [api_key |-> api_key, id |-> id, body |-> body]
\* req.get_json(): raises ValueError ("invalid"), or returns None ("null"), a
\* non-empty list ("array") or a dict ("object")
Body(shape, obj) == [shape |-> shape, obj |-> obj]
NoBody == Body("none", EmptyDict)

\* ----------------------------------------------------------------- create
\* the two try/except blocks of the store writes: the document write's
\* exception is logged and dropped, the relational write's becomes a 500
CreateStatus(cosmosOk, sqlOk) == IF sqlOk THEN 201 ELSE 500

\* assets_create.main.  new_id is what uuid4 returns, now the clock tick, F the
\* set of outbound calls that raise.
CreateStores(st, file_name, file_type, file_size, new_id, now, F) ==
    LET asset_id == JStr(<<new_id>>)
        container_name == get_storage_container
        blob_path == BlobPath(new_id, file_name.s)
        st0 == [st EXCEPT !.issued = @ \cup {new_id}]
        blob_url == JStr(build_blob_url(container_name, blob_path))
        upload_url == JStr(blob_url.s \o <<"?", "sas">>)
        cosmos_doc == [EmptyDict EXCEPT !["id"] = asset_id,
                                        !["fileName"] = file_name,
                                        !["fileType"] = file_type,
                                        !["uploadDate"] = IsoTime(now),
                                        !["fileSize"] = JInt(file_size),
                                        !["blobUrl"] = blob_url]
        cosmosOk == "cosmos.upsert" \notin F
        st1 == IF cosmosOk
               THEN [st0 EXCEPT !.cosmos = upsert_asset_doc(@, cosmos_doc)]
               ELSE st0
        sqlOk == "sql.insert" \notin F
        st2 == [st1 EXCEPT !.sql = SqlInsert(@, [id |-> asset_id,
                                                   file_name |-> file_name,
                                                   file_type |-> file_type,
                                                   file_size |-> JInt(file_size),
                                                   blob_url |-> blob_url], now)]
        made == <<Call("uuid4", TRUE), Call("blob.sas", TRUE),
                  Call("cosmos.upsert", cosmosOk), Call("sql.insert", sqlOk)>>
    IN  IF "blob.sas" \in F
        THEN Outcome(Unhandled("ValueError"),
                     <<Call("uuid4", TRUE), Call("blob.sas", FALSE)>>, st0)
        ELSE IF CreateStatus(cosmosOk, sqlOk) = 500
        THEN Outcome(Reply(500, "Failed to save asset metadata"), made, st1)
        ELSE Outcome(JsonReply(201, [EmptyDict EXCEPT !["id"] = asset_id,
                                                      !["blobUrl"] = blob_url,
                                                      !["uploadUrl"] = upload_url]),
                     made, st2)

CreateMain(key, st, req, new_id, now, F) ==
    IF ~require_api_key(key, req.api_key)
    THEN Outcome(Reply(401, "Unauthorized"), <<>>, st)
    ELSE IF req.body.shape = "invalid"
    THEN Outcome(Reply(400, "Invalid JSON format"), <<>>, st)
    ELSE IF req.body.shape # "object"
    THEN Outcome(Unhandled("AttributeError"), <<>>, st)
    ELSE
        LET file_name == DictGet(req.body.obj, "fileName")
            file_type == DictGet(req.body.obj, "fileType")
            file_size == DictGet(req.body.obj, "fileSize")
            parsed == PyInt(file_size)
        IN  IF ~(Truthy(file_name) /\ Truthy(file_type) /\ Truthy(file_size))
            THEN Outcome(Reply(400, "Missing required fields: fileName, fileType, fileSize"),
                         <<>>, st)
            ELSE IF parsed.err \in {"ValueError", "TypeError"}
            THEN Outcome(Reply(400, "fileSize must be a valid integer"), <<>>, st)
            ELSE IF parsed.err # ""
            THEN Outcome(Unhandled(parsed.err), <<>>, st)
            ELSE CreateStores(st, file_name, file_type, parsed.n, new_id, now, F)

\* -------------------------------------------------------------------- get
\* the document's values win, as the comment above the merge has it
MergeCosmosWins(cosmos_doc, sql_results) ==
    IF sql_results # {}
    THEN DictUpdate(RowJson(CHOOSE r \in sql_results : TRUE), cosmos_doc)
    ELSE cosmos_doc

\* result = cosmos_doc or {}; if sql_results: result.update(sql_results[0])
Merge(cosmos_doc, sql_results) ==
    IF sql_results # {}
    THEN DictUpdate(cosmos_doc, RowJson(CHOOSE r \in sql_results : TRUE))
    ELSE cosmos_doc

\* assets_get.main
GetMain(key, st, req, F) ==
    IF ~require_api_key(key, req.api_key)
    THEN Outcome(Reply(401, "Unauthorized"), <<>>, st)
    ELSE IF req.id = ""
    THEN Outcome(Reply(400, "Asset ID is required"), <<>>, st)
    ELSE IF "cosmos.read" \in F
    THEN Outcome(Reply(500, "Internal server error"), <<Call("cosmos.read", FALSE)>>, st)
    ELSE IF "sql.select" \in F
    THEN Outcome(Reply(500, "Internal server error"),
                 <<Call("cosmos.read", TRUE), Call("sql.select", FALSE)>>, st)
    ELSE
        LET cosmos_doc == get_asset_doc(st.cosmos, req.id)
            sql_results == SqlSelectById(st.sql, JStr(<<req.id>>))
            result == Merge(cosmos_doc, sql_results)
            made == <<Call("cosmos.read", TRUE), Call("sql.select", TRUE)>>
        IN  IF result = EmptyDict
            THEN Outcome(Reply(404, "Not Found"), made, st)
            ELSE Outcome(JsonReply(200, result), made, st)

\* ------------------------------------------------------------------- list
\* ... FROM file_metadata ORDER BY created_at DESC
RECURSIVE SqlSelectAllDesc(_)
SqlSelectAllDesc(table) ==
    IF table = {} THEN <<>>
    ELSE LET r == CHOOSE x \in table : \A y \in table : x.created_at.n >= y.created_at.n
         IN  <<RowJson(r)>> \o SqlSelectAllDesc(table \ {r})

\* assets_list.main
ListMain(key, st, req, F) ==
    IF ~require_api_key(key, req.api_key)
    THEN Outcome(Reply(401, "Unauthorized"), <<>>, st)
    ELSE IF "sql.select" \in F
    THEN Outcome(Reply(500, "Internal server error"), <<Call("sql.select", FALSE)>>, st)
    ELSE Outcome(ListReply(200, SqlSelectAllDesc(st.sql)), <<Call("sql.select", TRUE)>>, st)

\* ----------------------------------------------------------------- update
allowed_fields == {"fileName", "fileType", "fileSize", "blobUrl", "status"}

\* the body is taken as it is
FieldsToUpdateUnfiltered(update_data) == update_data

\* {k: v for k, v in update_data.items() if k in allowed_fields}
FieldsToUpdate(update_data) ==
    [k \in Keys |-> IF k \in allowed_fields THEN update_data[k] ELSE Absent]

field_mapping ==
    [fileName |-> "file_name", fileType |-> "file_type", fileSize |-> "file_size",
     blobUrl |-> "blob_url"]

\* the elif branch for 'status' is missing
SqlParamsNoStatus(fields_to_update) ==
    [c \in {"file_name", "file_type", "file_size", "blob_url", "status"} |->
        IF \E f \in DOMAIN field_mapping : field_mapping[f] = c
        THEN fields_to_update[CHOOSE f \in DOMAIN field_mapping : field_mapping[f] = c]
        ELSE Absent]

\* sql_params without 'id': the SET columns and their values
SqlParams(fields_to_update) ==
    [c \in {"file_name", "file_type", "file_size", "blob_url", "status"} |->
        IF \E f \in DOMAIN field_mapping : field_mapping[f] = c
        THEN fields_to_update[CHOOSE f \in DOMAIN field_mapping : field_mapping[f] = c]
        ELSE IF c = "status" THEN fields_to_update["status"]
        ELSE Absent]

\* the try/except blocks of the update: only the relational UPDATE's exception
\* becomes a 500; the document write's and the re-read's are logged and dropped
UpdateStatus(cosmosOk, sqlOk, rereadOk) == IF sqlOk THEN 200 ELSE 500

\* the steps of assets_update.main after validation
UpdateStores(st, asset_id, fields_to_update, F) ==
    LET idv == JStr(<<asset_id>>)
        \* document store: read, modify, upsert
        readOk == "cosmos.read" \notin F
        upsertOk == readOk /\ "cosmos.upsert" \notin F
        found == get_asset_doc(st.cosmos, asset_id)
        doc == DictUpdate(IF found # EmptyDict THEN found ELSE Dict1("id", idv),
                          fields_to_update)
        st1 == IF upsertOk THEN [st EXCEPT !.cosmos = upsert_asset_doc(@, doc)] ELSE st
        calls1 == IF readOk
                  THEN <<Call("cosmos.read", TRUE), Call("cosmos.upsert", upsertOk)>>
                  ELSE <<Call("cosmos.read", FALSE)>>
        \* relational store
        sql_params == SqlParams(fields_to_update)
        sql_updates == {c \in DOMAIN sql_params : sql_params[c] # Absent}
        sqlOk == sql_updates = {} \/ "sql.update" \notin F
        st2 == IF sql_updates # {}
               THEN [st1 EXCEPT !.sql = SqlUpdate(@, idv, sql_params)]
               ELSE st1
        calls2 == IF sql_updates # {}
                  THEN calls1 \o <<Call("sql.update", sqlOk)>>
                  ELSE calls1
        \* re-read and merge
        fallback == DictUpdate(Dict1("id", idv), fields_to_update)
        rereadOk == "cosmos.reread" \notin F
        selectOk == "sql.select" \notin F
        merged == Merge(get_asset_doc(st2.cosmos, asset_id), SqlSelectById(st2.sql, idv))
        updated_doc == IF rereadOk /\ selectOk /\ merged # EmptyDict THEN merged
                       ELSE fallback
        calls3 == IF rereadOk
                  THEN calls2 \o <<Call("cosmos.reread", TRUE), Call("sql.select", selectOk)>>
                  ELSE calls2 \o <<Call("cosmos.reread", FALSE)>>
    IN  IF UpdateStatus(upsertOk, sqlOk, rereadOk /\ selectOk) = 500
        THEN Outcome(Reply(500, "Failed to update asset"), calls2, st1)
        ELSE Outcome(JsonReply(200, updated_doc), calls3, st2)

\* assets_update.main
UpdateMain(key, st, req, F) ==
    IF ~require_api_key(key, req.api_key)
    THEN Outcome(Reply(401, "Unauthorized"), <<>>, st)
    ELSE IF req.id = ""
    THEN Outcome(Reply(400, "Asset ID is required"), <<>>, st)
    ELSE IF req.body.shape = "invalid"
    THEN Outcome(Reply(400, "Invalid JSON format"), <<>>, st)
    ELSE IF req.body.shape = "array"
    THEN Outcome(Unhandled("AttributeError"), <<>>, st)
    ELSE
        LET update_data == IF req.body.shape = "object" THEN req.body.obj ELSE EmptyDict
            fields_to_update == FieldsToUpdate(update_data)
        IN  IF fields_to_update = EmptyDict
            THEN Outcome(Reply(400, "No valid fields provided for update"), <<>>, st)
            ELSE UpdateStores(st, req.id, fields_to_update, F)

\* ----------------------------------------------------------------- delete
RECURSIVE SeqOf(_)
SeqOf(S) == IF S = {} THEN <<>>
            ELSE LET x == CHOOSE y \in S : TRUE IN <<x>> \o SeqOf(S \ {x})

\* the try/except blocks of the delete: only the relational DELETE's exception
\* becomes a 500; the blob phase's and the document delete's are logged and dropped
\* the blob phase's exception is not dropped
DeleteStatusStrict(blobsOk, sqlOk, docOk) == IF sqlOk /\ blobsOk THEN 200 ELSE 500
\* the relational DELETE's exception is dropped like the others
DeleteStatusLenient(blobsOk, sqlOk, docOk) == 200

DeleteStatus(blobsOk, sqlOk, docOk) == IF sqlOk THEN 200 ELSE 500

\* assets_delete.main.  bad is the set of blobs whose delete_blob raises.
DeleteMain(key, st, req, F, bad) ==
    IF ~require_api_key(key, req.api_key)
    THEN Outcome(Reply(401, "Unauthorized"), <<>>, st)
    ELSE IF req.id = ""
    THEN Outcome(Reply(400, "Asset ID is required"), <<>>, st)
    ELSE
        LET listOk == "blob.list" \notin F
            blobs_to_delete == IF listOk THEN ListBlobs(st.blobs, req.id) ELSE {}
            order == SeqOf(blobs_to_delete)
            st1 == [st EXCEPT !.blobs = @ \ (blobs_to_delete \ bad)]
            calls1 == <<Call("blob.list", listOk)>>
                      \o [i \in 1..Len(order) |-> Call("blob.delete", order[i] \notin bad)]
            sqlOk == "sql.delete" \notin F
            st2 == [st1 EXCEPT !.sql = SqlDelete(@, JStr(<<req.id>>))]
            calls2 == calls1 \o <<Call("sql.delete", sqlOk)>>
            docOk == "cosmos.delete" \notin F
            st3 == IF docOk
                   THEN [st2 EXCEPT !.cosmos = delete_asset_doc(@, req.id)]
                   ELSE st2
            calls3 == calls2 \o <<Call("cosmos.delete", docOk)>>
        IN  IF DeleteStatus(listOk /\ blobs_to_delete \cap bad = {}, sqlOk, docOk) = 500
            THEN Outcome(Reply(500, "Failed to delete asset from database"), calls2, st1)
            ELSE Outcome(JsonReply(200, [EmptyDict EXCEPT !["deleted"] = JTrue,
                                                          !["id"] = JStr(<<req.id>>)]),
                         calls3, st3)

\* ---------------------------------------------------------------- threads
\* the worker threads of the process that run main() of the sync handlers
Threads == {"t1", "t2"}

\* a thread between requests
\* op, id, fields: the request (fields is fields_to_update); at: the outbound
\* call main() makes next; h: where the call stands in fetching its handle;
\* doc, todo: the locals doc / cosmos_doc and blobs_to_delete; resp: the response.
\* n numbers the request, with holds the requests that were running when it
\* began, existed tells whether the id had a row and a document then, and late
\* the deletes of the id that had deleted the document when the upsert landed.
Idle ==
    [op |-> "", id |-> "", fields |-> EmptyDict, at |-> "idle", h |-> "",
     doc |-> EmptyDict, todo |-> <<>>, resp |-> Reply(0, ""),
     n |-> 0, with |-> {}, existed |-> FALSE, late |-> {}]

\* the handle an outbound call goes through: get_container() for the document
\* calls, get_database_engine() for the relational ones, create_blob_client()
\* for the blob phase (its delete_blob calls reuse the phase's client)
HandleOf(at) ==
    CASE at \in {"cosmos.read", "cosmos.upsert", "cosmos.reread", "cosmos.delete"} -> "container"
      [] at \in {"sql.update", "sql.select", "sql.delete"} -> "engine"
      [] at = "blob.list" -> "blob"
      [] OTHER -> ""

\* the module global a kind of handle is cached in: create_blob_client caches
\* nothing and is rendered as a global that stays None
Cached(kind) ==
    CASE kind = "container" -> CONTAINER
      [] kind = "engine" -> db_engine
      [] OTHER -> 0

\* ----------------------------------------------------------------- inputs
ConfiguredKeys == {<<>>, <<"">>, <<"k1">>}
Headers == {<<>>, <<"k1">>, <<"bad">>}
\* the route parameter: "" when the route carries no id
RouteIds == Ids \cup {""}

\* a header that passes the gate under the configured key
GoodHeaders == IF Falsy(API_KEY) THEN {<<>>} ELSE {API_KEY}

CreateNames == {Absent, JStr(<<>>), JStr(<<"a">>)}
CreateTypes == {Absent, JStr(<<>>), JStr(<<"t">>)}
CreateSizes == {Absent, JInt(0), JInt(5), JInt(-1), JStr(<<" ", "5">>), JStr(<<"-", "1">>),
                JStr(<<"a", "b", "c">>), JStr(<<>>), JFloat(5, <<"5">>),
                JFloat(0, <<"inf">>)}
CreateObject(n, t, z) ==
    Body("object", [EmptyDict EXCEPT !["fileName"] = n, !["fileType"] = t, !["fileSize"] = z])
MalformedBodies == {Body("invalid", EmptyDict), Body("null", EmptyDict), Body("array", EmptyDict)}
CreateBodies ==
    MalformedBodies
    \cup {CreateObject(n, t, z) : n \in CreateNames, t \in CreateTypes, z \in CreateSizes}
\* the bodies the create handler is specified to accept
ValidCreateBodies ==
    {CreateObject(JStr(<<"a">>), JStr(<<"t">>), JInt(5)),
     CreateObject(JStr(<<"b">>), JStr(<<"t">>), JStr(<<"-", "1">>))}

Done == JStr(<<"done">>)
UpdateObjects ==
    { EmptyDict,
      Dict1("owner", JStr(<<"x">>)),
      Dict1("status", Done),
      [EmptyDict EXCEPT !["status"] = Done, !["owner"] = JStr(<<"x">>)],
      [EmptyDict EXCEPT !["fileName"] = JStr(<<"b">>), !["fileSize"] = JInt(7),
                        !["blobUrl"] = JStr(<<"u">>)],
      [EmptyDict EXCEPT !["id"] = JStr(<<"zz">>), !["uploadDate"] = IsoTime(0),
                        !["fileType"] = None] }
UpdateBodies == MalformedBodies \cup {Body("object", o) : o \in UpdateObjects}
SeqUpdateBodies ==
    {Body("object", o) :
        o \in {Dict1("status", Done),
               [EmptyDict EXCEPT !["fileName"] = JStr(<<"c">>), !["fileSize"] = JInt(7)]}}


\* ---------------------------------------------------------------- actions
Init ==
    /\ API_KEY \in ConfiguredKeys
    /\ sql = {}
    /\ cosmos = {}
    /\ blobs = {}
    /\ issued = {}
    /\ served = 0
    /\ log = <<>>
    /\ CONTAINER = 0
    /\ db_engine = 0
    /\ built = [container |-> 0, engine |-> 0, blob |-> 0]
    /\ pc = [t \in Threads |-> Idle]

\* the request is answered: the stores take the handler's effects and the
\* exchange is logged (keep: the whole history; otherwise the last exchange only)
Serve(op, req, out, keep) ==
    /\ sql' = out.st.sql
    /\ cosmos' = out.st.cosmos
    /\ blobs' = out.st.blobs
    /\ issued' = out.st.issued
    /\ served' = served + 1
    /\ log' = LET e == [op |-> op, req |-> req, resp |-> out.resp, calls |-> out.calls]
              IN  IF keep THEN Append(log, e) ELSE <<e>>
    /\ UNCHANGED <<API_KEY, proc>>

\* the outbound calls a handler run made: only these can raise
Sites(out) == {out.calls[i].api : i \in 1..Len(out.calls)}

\* uuid.uuid4(): an id never returned before (collisions are neglected); ids
\* are opaque, so they are taken in the pool's order
uuid4 == UuidPool[Cardinality(issued) + 1]

CreateAct(hdrs, bodies, faulty, keep) ==
    \E h \in hdrs, b \in bodies :
        LET req == Request(h, "", b)
            new_id == uuid4
            now == Cardinality(issued) + 1
            clean == CreateMain(API_KEY, Stores, req, new_id, now, {})
        IN  \E F \in (IF faulty THEN SUBSET Sites(clean) ELSE {{}}) :
                Serve("create", req, CreateMain(API_KEY, Stores, req, new_id, now, F), keep)

GetAct(hdrs, ids, faulty, keep) ==
    \E h \in hdrs, id \in ids :
        LET req == Request(h, id, NoBody)
            clean == GetMain(API_KEY, Stores, req, {})
        IN  \E F \in (IF faulty THEN SUBSET Sites(clean) ELSE {{}}) :
                Serve("get", req, GetMain(API_KEY, Stores, req, F), keep)

ListAct(hdrs, faulty, keep) ==
    \E h \in hdrs :
        LET req == Request(h, "", NoBody)
            clean == ListMain(API_KEY, Stores, req, {})
        IN  \E F \in (IF faulty THEN SUBSET Sites(clean) ELSE {{}}) :
                Serve("list", req, ListMain(API_KEY, Stores, req, F), keep)

UpdateAct(hdrs, ids, bodies, faulty, keep) ==
    \E h \in hdrs, id \in ids, b \in bodies :
        LET req == Request(h, id, b)
            clean == UpdateMain(API_KEY, Stores, req, {})
        IN  \E F \in (IF faulty THEN SUBSET Sites(clean) ELSE {{}}) :
                Serve("update", req, UpdateMain(API_KEY, Stores, req, F), keep)

DeleteAct(hdrs, ids, faulty, keep) ==
    \E h \in hdrs, id \in ids :
        LET req == Request(h, id, NoBody)
            clean == DeleteMain(API_KEY, Stores, req, {}, {})
        IN  \E F \in (IF faulty THEN SUBSET (Sites(clean) \ {"blob.delete"}) ELSE {{}}),
               bad \in (IF faulty THEN SUBSET ListBlobs(blobs, id) ELSE {{}}) :
                Serve("delete", req, DeleteMain(API_KEY, Stores, req, F, bad), keep)

\* The client of a 201 create response uploads the file to the upload URL,
\* out of band: the blob f"{id}/{fileName}" comes to exist.
ClientUpload ==
    \E i \in {Len(log)} \ {0} :
        /\ log[i].op = "create"
        /\ log[i].resp.status = 201
        /\ blobs' = blobs \cup {BlobPath(log[i].resp.obj["id"].s[1],
                                         log[i].req.body.obj["fileName"].s)}
        /\ UNCHANGED <<API_KEY, sql, cosmos, issued, served, log, proc>>

\* the response reaches the caller; the next request is served after it
Deliver ==
    /\ served <= MaxRequests
    /\ log # <<>>
    /\ log' = <<>>
    /\ UNCHANGED <<API_KEY, sql, cosmos, blobs, issued, served, proc>>

\* one request at a time: any request, any outcome of the outbound calls
Ready == log = <<>> /\ served < MaxRequests
Create == Ready /\ issued # Ids /\ CreateAct(Headers, CreateBodies, TRUE, FALSE)
Get == Ready /\ GetAct(Headers, RouteIds, TRUE, FALSE)
List == Ready /\ ListAct(Headers, TRUE, FALSE)
Update == Ready /\ UpdateAct(Headers, RouteIds, UpdateBodies, TRUE, FALSE)
Delete == Ready /\ DeleteAct(Headers, RouteIds, TRUE, FALSE)

Next == Create \/ Get \/ List \/ Update \/ Delete \/ ClientUpload \/ Deliver

Spec == Init /\ [][Next]_vars

\* sequential executions of authenticated, well-formed requests in which every
\* outbound call succeeds, with the whole history logged
SeqCreate == Len(log) < MaxLog /\ issued # Ids /\ CreateAct(GoodHeaders, ValidCreateBodies, FALSE, TRUE)
SeqGet == Len(log) < MaxLog /\ GetAct(GoodHeaders, Ids, FALSE, TRUE)
SeqUpdate == Len(log) < MaxLog /\ UpdateAct(GoodHeaders, Ids, SeqUpdateBodies, FALSE, TRUE)
SeqDelete == Len(log) < MaxLog /\ DeleteAct(GoodHeaders, Ids, FALSE, TRUE)

NextSeq == SeqCreate \/ SeqGet \/ SeqUpdate \/ SeqDelete \/ ClientUpload

InitSeq == Init /\ API_KEY = <<"k1">>

SpecSeq == InitSeq /\ [][NextSeq]_vars

\* ------------------------------------------------------ concurrent requests
\* Requests that passed the gate and the validation run in the threads of one
\* process, one outbound call at a time; every call succeeds.
Running(t) == pc[t].at \notin {"idle", "done"}
Started == served + Cardinality({t \in Threads : Running(t)})
ConcIds == {UuidPool[1]}

Begin(t, op, id, fields, first) ==
    /\ ~Running(t)
    /\ Started < MaxStarted
    /\ pc' = [pc EXCEPT ![t] =
                [Idle EXCEPT !.op = op, !.id = id, !.fields = fields, !.at = first,
                             !.h = "need", !.n = Started + 1,
                             !.with = {pc[u].n : u \in {v \in Threads : Running(v)}},
                             !.existed = (\E r \in sql : r.id = JStr(<<id>>))
                                         /\ (\E d \in cosmos : d["id"] = JStr(<<id>>))]]
    /\ UNCHANGED <<API_KEY, sql, cosmos, blobs, issued, served, log, CONTAINER, db_engine, built>>

ThreadBeginUpdate(t) ==
    \E id \in ConcIds, b \in SeqUpdateBodies :
        Begin(t, "update", id, FieldsToUpdate(b.obj), "cosmos.read")

ThreadBeginDelete(t) ==
    \E id \in ConcIds : Begin(t, "delete", id, EmptyDict, "blob.list")

\* `if _CONTAINER is None:` / `if _db_engine is None:`; create_blob_client has
\* no such test and always constructs
AcquireCheck(t) ==
    /\ Running(t)
    /\ pc[t].h = "need"
    /\ pc' = [pc EXCEPT ![t].h = IF Cached(HandleOf(pc[t].at)) = 0 THEN "build" ELSE "have"]
    /\ UNCHANGED <<API_KEY, sql, cosmos, blobs, issued, served, log, CONTAINER, db_engine, built>>

\* the construction and, for the two cached kinds, the assignment to the global
AcquireBuild(t) ==
    /\ Running(t)
    /\ pc[t].h = "build"
    /\ LET kind == HandleOf(pc[t].at)
       IN  /\ built' = [built EXCEPT ![kind] = @ + 1]
           /\ CONTAINER' = IF kind = "container" THEN built[kind] + 1 ELSE CONTAINER
           /\ db_engine' = IF kind = "engine" THEN built[kind] + 1 ELSE db_engine
    /\ pc' = [pc EXCEPT ![t].h = "have"]
    /\ UNCHANGED <<API_KEY, sql, cosmos, blobs, issued, served, log>>

\* thread t is about to make the call `label` and holds the handle for it
At(t, label) == pc[t].at = label /\ pc[t].h = "have"

\* doc = get_asset_doc(asset_id) or {"id": asset_id}; doc.update(fields_to_update)
UpdReadDoc(t) ==
    /\ At(t, "cosmos.read")
    /\ LET found == get_asset_doc(cosmos, pc[t].id)
           shell == Dict1("id", JStr(<<pc[t].id>>))
       IN  pc' = [pc EXCEPT ![t].doc = DictUpdate(IF found # EmptyDict THEN found ELSE shell,
                                                  pc[t].fields),
                            ![t].at = "cosmos.upsert", ![t].h = "need"]
    /\ UNCHANGED <<API_KEY, sql, cosmos, blobs, issued, served, log, CONTAINER, db_engine, built>>

\* upsert_asset_doc(doc)
UpdUpsertDoc(t) ==
    /\ At(t, "cosmos.upsert")
    /\ cosmos' = upsert_asset_doc(cosmos, pc[t].doc)
    /\ LET sql_params == SqlParams(pc[t].fields)
           sql_updates == {c \in DOMAIN sql_params : sql_params[c] # Absent}
           deleted == {u \in Threads \ {t} :
                          /\ pc[u].op = "delete" /\ pc[u].id = pc[t].id /\ pc[u].at = "done"
                          /\ (pc[u].n \in pc[t].with \/ pc[t].n \in pc[u].with)}
       IN  pc' = [pc EXCEPT ![t].at = IF sql_updates # {} THEN "sql.update" ELSE "cosmos.reread",
                            ![t].h = "need",
                            ![t].late = {pc[u].n : u \in deleted}]
    /\ UNCHANGED <<API_KEY, sql, blobs, issued, served, log, CONTAINER, db_engine, built>>

\* execute_update("UPDATE file_metadata SET ... WHERE id = :id", sql_params)
UpdSqlUpdate(t) ==
    /\ At(t, "sql.update")
    /\ sql' = SqlUpdate(sql, JStr(<<pc[t].id>>), SqlParams(pc[t].fields))
    /\ pc' = [pc EXCEPT ![t].at = "cosmos.reread", ![t].h = "need"]
    /\ UNCHANGED <<API_KEY, cosmos, blobs, issued, served, log, CONTAINER, db_engine, built>>

\* cosmos_doc = get_asset_doc(asset_id)
UpdReread(t) ==
    /\ At(t, "cosmos.reread")
    /\ pc' = [pc EXCEPT ![t].doc = get_asset_doc(cosmos, pc[t].id),
                        ![t].at = "sql.select", ![t].h = "need"]
    /\ UNCHANGED <<API_KEY, sql, cosmos, blobs, issued, served, log, CONTAINER, db_engine, built>>

\* sql_results = fetch_all_records(...); the merge, the fallback and the response
UpdSelect(t) ==
    /\ At(t, "sql.select")
    /\ LET idv == JStr(<<pc[t].id>>)
           merged == Merge(pc[t].doc, SqlSelectById(sql, idv))
           fallback == DictUpdate(Dict1("id", idv), pc[t].fields)
           updated_doc == IF merged # EmptyDict THEN merged ELSE fallback
       IN  pc' = [pc EXCEPT ![t].resp = JsonReply(UpdateStatus(TRUE, TRUE, TRUE), updated_doc),
                            ![t].at = "done", ![t].h = ""]
    /\ served' = served + 1
    /\ UNCHANGED <<API_KEY, sql, cosmos, blobs, issued, log, CONTAINER, db_engine, built>>

\* blobs_to_delete = [blob.name for blob in container_client.list_blobs(...)]
DelListBlobs(t) ==
    /\ At(t, "blob.list")
    /\ LET blobs_to_delete == SeqOf(ListBlobs(blobs, pc[t].id))
       IN  pc' = [pc EXCEPT ![t].todo = blobs_to_delete,
                            ![t].at = IF blobs_to_delete = <<>> THEN "sql.delete"
                                      ELSE "blob.delete",
                            ![t].h = IF blobs_to_delete = <<>> THEN "need" ELSE "have"]
    /\ UNCHANGED <<API_KEY, sql, cosmos, blobs, issued, served, log, CONTAINER, db_engine, built>>

\* container_client.delete_blob(blob_name) in the loop; a blob another request
\* has deleted meanwhile raises, which the loop logs and passes over
DelDeleteBlob(t) ==
    /\ At(t, "blob.delete")
    /\ blobs' = blobs \ {Head(pc[t].todo)}
    /\ pc' = [pc EXCEPT ![t].todo = Tail(pc[t].todo),
                        ![t].at = IF Len(pc[t].todo) = 1 THEN "sql.delete" ELSE "blob.delete",
                        ![t].h = IF Len(pc[t].todo) = 1 THEN "need" ELSE "have"]
    /\ UNCHANGED <<API_KEY, sql, cosmos, issued, served, log, CONTAINER, db_engine, built>>

\* execute_update("DELETE FROM file_metadata WHERE id = :id", ...)
DelSqlDelete(t) ==
    /\ At(t, "sql.delete")
    /\ sql' = SqlDelete(sql, JStr(<<pc[t].id>>))
    /\ pc' = [pc EXCEPT ![t].at = "cosmos.delete", ![t].h = "need"]
    /\ UNCHANGED <<API_KEY, cosmos, blobs, issued, served, log, CONTAINER, db_engine, built>>

\* delete_asset_doc(asset_id) and the response
DelDeleteDoc(t) ==
    /\ At(t, "cosmos.delete")
    /\ cosmos' = delete_asset_doc(cosmos, pc[t].id)
    /\ pc' = [pc EXCEPT ![t].resp = JsonReply(DeleteStatus(TRUE, TRUE, TRUE),
                                              [EmptyDict EXCEPT !["deleted"] = JTrue,
                                                                !["id"] = JStr(<<pc[t].id>>)]),
                        ![t].at = "done", ![t].h = ""]
    /\ served' = served + 1
    /\ UNCHANGED <<API_KEY, sql, blobs, issued, log, CONTAINER, db_engine, built>>

NextConc ==
    \E t \in Threads :
        \/ ThreadBeginUpdate(t)
        \/ ThreadBeginDelete(t)
        \/ AcquireCheck(t)
        \/ AcquireBuild(t)
        \/ UpdReadDoc(t)
        \/ UpdUpsertDoc(t)
        \/ UpdSqlUpdate(t)
        \/ UpdReread(t)
        \/ UpdSelect(t)
        \/ DelListBlobs(t)
        \/ DelDeleteBlob(t)
        \/ DelSqlDelete(t)
        \/ DelDeleteDoc(t)

\* the stores as an earlier process left them: empty, or holding one asset that
\* was created and possibly uploaded
SeededStores ==
    LET empty == [sql |-> {}, cosmos |-> {}, blobs |-> {}, issued |-> {}]
        made(b) == CreateMain(<<"k1">>, empty, Request(<<"k1">>, "", b), UuidPool[1], 1, {}).st
        blob(b) == BlobPath(UuidPool[1], b.obj["fileName"].s)
    IN  {empty}
        \cup {made(b) : b \in ValidCreateBodies}
        \cup {[made(b) EXCEPT !.blobs = {blob(b)}] : b \in ValidCreateBodies}

\* a fresh process: no handle constructed, all threads idle
InitConc ==
    /\ API_KEY = <<"k1">>
    /\ \E st \in SeededStores :
          /\ sql = st.sql
          /\ cosmos = st.cosmos
          /\ blobs = st.blobs
          /\ issued = st.issued
    /\ served = 0
    /\ log = <<>>
    /\ CONTAINER = 0
    /\ db_engine = 0
    /\ built = [container |-> 0, engine |-> 0, blob |-> 0]
    /\ pc = [t \in Threads |-> Idle]

SpecConc == InitConc /\ [][NextConc]_vars

\* ================================================================= claims
Entries == {log[i] : i \in 1..Len(log)}
\* a handler has just answered a request: the newest exchange of log'
Served == log' # log /\ log' # <<>>
Newest == log'[Len(log')]
StoresUnchanged == UNCHANGED <<sql, cosmos, blobs>>

\* no API key configured (unset or empty), or the supplied key is the configured one
GateOpen(e) == API_KEY \in {<<>>, <<"">>} \/ e.req.api_key = API_KEY

WriteOps == {"create", "update", "delete"}
RelationalWrite == [create |-> "sql.insert", update |-> "sql.update", delete |-> "sql.delete"]
SuccessStatus == [create |-> 201, update |-> 200, delete |-> 200]
ToleratedCalls == {"cosmos.read", "cosmos.upsert", "cosmos.reread", "cosmos.delete",
                   "blob.list", "blob.delete"}
Failed(e, apis) == {i \in 1..Len(e.calls) : e.calls[i].api \in apis /\ ~e.calls[i].ok}
Made(e, apis) == {i \in 1..Len(e.calls) : e.calls[i].api \in apis}

\* C1: in each of the five handlers the request passes the gate exactly when no
\* API key is configured (unset or empty) or the supplied x-api-key equals the
\* configured key; a request that does not pass is answered 401 and the handler
\* makes no call to, and no change in, any of the three stores.
Thm_C1_Gate ==
    [][Served =>
        /\ (Newest.resp.status # 401) <=> GateOpen(Newest)
        /\ ~GateOpen(Newest) =>
              /\ Newest.calls = <<>>
              /\ StoresUnchanged
              /\ UNCHANGED issued]_vars

\* a delete with a wrong key is refused while the table holds rows
Wit_C1_Gate ==
    \E e \in Entries :
        /\ e.op = "delete"
        /\ API_KEY = <<"k1">>
        /\ e.req.api_key = <<"bad">>
        /\ e.resp.status = 401
        /\ sql # {}

\* what the create handler reads of a body: a field of a JSON object
Field(b, k) == IF b.shape = "object" THEN b.obj[k] ELSE Absent
MissingOrEmpty(v) == v \in {Absent, None, JStr(<<>>)}
ParsesAsInteger(v) == PyInt(v).err = ""
InvalidCreate(b) ==
    \/ MissingOrEmpty(Field(b, "fileName"))
    \/ MissingOrEmpty(Field(b, "fileType"))
    \/ Field(b, "fileSize") \in {Absent, None}
    \/ ~ParsesAsInteger(Field(b, "fileSize"))

\* C2: every authenticated create request whose fileName or fileType is missing
\* or empty, or whose fileSize is missing or does not parse as an integer, is
\* answered 400, and no id is generated, no upload credential requested and no
\* store written.
Claim_C2_InvalidCreateIs400 ==
    \A e \in Entries :
        (e.op = "create" /\ GateOpen(e) /\ InvalidCreate(e.req.body)) =>
            /\ e.resp.status = 400
            /\ e.calls = <<>>

\* C3: in create, update and delete a failure of a document-store call, of the
\* blob listing or of a blob deletion never surfaces: the relational write is
\* still attempted and the status is decided by the relational write alone
\* (201 / 200 / 200 when it succeeds), as if the tolerated call had succeeded.
Thm_C3_ToleratedFailures ==
    \A e \in Entries :
        (e.op \in WriteOps /\ Failed(e, ToleratedCalls) # {}) =>
            /\ e.resp.exc = ""
            /\ \E j \in Made(e, {RelationalWrite[e.op]}) :
                  e.resp.status = IF e.calls[j].ok THEN SuccessStatus[e.op] ELSE 500

\* a delete whose blob deletion and document delete both failed answers 200
Wit_C3_ToleratedFailures ==
    \E e \in Entries :
        /\ e.op = "delete"
        /\ Failed(e, {"blob.delete"}) # {}
        /\ Failed(e, {"cosmos.delete"}) # {}
        /\ e.resp.status = 200

\* C4: in create, update and delete, when the relational write fails the answer
\* is 500 whatever the document-store step did, the failed write is the last
\* call made (no id is returned, no re-read, no document delete), and a delete
\* leaves the document store as it was.
Thm_C4_RelationalFailureFatal ==
    [][(Served /\ Newest.op \in WriteOps
               /\ Failed(Newest, {RelationalWrite[Newest.op]}) # {}) =>
        /\ Newest.resp.status = 500
        /\ Failed(Newest, {RelationalWrite[Newest.op]}) = {Len(Newest.calls)}
        /\ Newest.resp.obj = EmptyDict
        /\ Newest.op = "delete" => cosmos' = cosmos]_vars

\* a delete whose relational DELETE failed, the document of that id still stored
Wit_C4_RelationalFailureFatal ==
    \E e \in Entries :
        /\ e.op = "delete"
        /\ Failed(e, {"sql.delete"}) # {}
        /\ e.resp.status = 500
        /\ \E d \in cosmos : d["id"] = JStr(<<e.req.id>>)

\* the stored records of an id
DocsOf(id) == {d \in cosmos : d["id"] = JStr(<<id>>)}
RowsOf(id) == {r \in sql : r.id = JStr(<<id>>)}
\* the response field each selected column is returned as
SelectAlias ==
    [id |-> "id", fileName |-> "file_name", fileType |-> "file_type",
     fileSize |-> "file_size", blobUrl |-> "blob_url", status |-> "status",
     uploadDate |-> "created_at"]
Selected(r) == [k \in Keys |-> IF k \in DOMAIN SelectAlias THEN r[SelectAlias[k]] ELSE Absent]
BothReadsOk(e) == Len(e.calls) = 2 /\ Failed(e, {"cosmos.read", "sql.select"}) = {}

Claim_C6_GetSwallowsDocFailure ==
    \A e \in Entries :
        (e.op = "get" /\ Failed(e, {"cosmos.read"}) # {}) =>
            e.resp.status = IF RowsOf(e.req.id) # {} THEN 200 ELSE 404

\* C7: an authenticated delete(id) of an id with no blob, no row and no
\* document (an unknown id, or the second of two consecutive delete(id))
\* answers 200 {deleted: true, id} and changes none of the three stores.
NothingStored(id) == ListBlobs(blobs, id) = {} /\ RowsOf(id) = {} /\ DocsOf(id) = {}
JustDeleted(id) ==
    /\ log # <<>>
    /\ log[Len(log)].op = "delete"
    /\ log[Len(log)].req.id = id
    /\ log[Len(log)].resp.status = 200
Thm_C7_DeleteAbsentNoop ==
    [][(Served /\ Newest.op = "delete"
               /\ (NothingStored(Newest.req.id) \/ JustDeleted(Newest.req.id))) =>
        /\ Newest.resp.status = 200
        /\ Newest.resp.obj = [EmptyDict EXCEPT !["deleted"] = JTrue,
                                               !["id"] = JStr(<<Newest.req.id>>)]
        /\ StoresUnchanged]_vars

\* an asset is created (and has a row), deleted, and deleted again
Wit_C7_DeleteAbsentNoop ==
    \E i \in 1..(Len(log) - 2) :
        /\ log[i].op = "create" /\ log[i].resp.status = 201
        /\ log[i + 1].op = "delete" /\ log[i + 1].resp.status = 200
        /\ JStr(<<log[i + 1].req.id>>) = log[i].resp.obj["id"]
        /\ log[i + 2].op = "delete" /\ log[i + 2].resp.status = 200
        /\ log[i + 2].req.id = log[i + 1].req.id

AllowList == {"fileName", "fileType", "fileSize", "blobUrl", "status"}
ColumnOf ==
    [fileName |-> "file_name", fileType |-> "file_type", fileSize |-> "file_size",
     blobUrl |-> "blob_url", status |-> "status"]
MappedColumns == {ColumnOf[k] : k \in AllowList}

\* C8: update applies the allow-list: a key outside it is never written to the
\* document of the id nor used as a column, and a body (a JSON object) with no
\* allow-listed key is answered 400 with no call to either store.
Thm_C8_AllowList ==
    [][(Served /\ Newest.op = "update" /\ GateOpen(Newest) /\ Newest.req.id # ""
               /\ Newest.req.body.shape = "object") =>
        LET id == Newest.req.id
            body == Newest.req.body.obj
        IN  /\ KeysOf(body) \cap AllowList = {} =>
                  /\ Newest.resp.status = 400
                  /\ Newest.calls = <<>>
                  /\ StoresUnchanged
            /\ \A d2 \in cosmos' \ cosmos :
                  /\ d2["id"] = JStr(<<id>>)
                  /\ \A k \in Keys \ (AllowList \cup {"id"}) :
                        d2[k] = IF DocsOf(id) = {} THEN Absent
                                ELSE (CHOOSE d \in DocsOf(id) : TRUE)[k]
            /\ \A r2 \in sql' \ sql :
                  \E r \in sql : \A c \in Columns \ MappedColumns : r2[c] = r[c]]_vars

\* an update carrying status and the unknown key owner: the document took the
\* status and has no owner
Wit_C8_AllowList ==
    \E e \in Entries :
        /\ e.op = "update" /\ e.resp.status = 200
        /\ e.req.body.obj["owner"] # Absent
        /\ e.req.body.obj["status"] = Done
        /\ \E d \in DocsOf(e.req.id) : d["status"] = Done /\ d["owner"] = Absent

\* C9: a successful update(id, body) sets, in the row of that id, exactly the
\* columns mapped from the allow-listed keys of body to the submitted values,
\* and leaves the row's other columns and every other row as they were.
Thm_C9_UpdateFrame ==
    [][(Served /\ Newest.op = "update" /\ Newest.resp.status = 200) =>
        LET idv == JStr(<<Newest.req.id>>)
            body == Newest.req.body.obj
            sent(c) == {k \in AllowList \cap KeysOf(body) : ColumnOf[k] = c}
        IN  sql' = {IF r.id = idv
                    THEN [c \in Columns |->
                             IF sent(c) # {} THEN body[CHOOSE k \in sent(c) : TRUE] ELSE r[c]]
                    ELSE r : r \in sql}]_vars

\* an update of status alone, with a second row in the table: the row of the id
\* is done, the other one still pending
Wit_C9_UpdateFrame ==
    \E e \in Entries :
        /\ e.op = "update" /\ e.resp.status = 200
        /\ e.req.body.obj = Dict1("status", Done)
        /\ \E r \in RowsOf(e.req.id) : r.status = Done /\ r.file_name # None
        /\ \E r \in sql : r.id # JStr(<<e.req.id>>) /\ r.status = JStr(<<"pending">>)

\* the integer a valid fileSize denotes
IntegerOf(v) == IF v.kind = "int" THEN v.n ELSE ParseInt(v.s).n
IsGetOf(e, idv) == e.op = "get" /\ JStr(<<e.req.id>>) = idv

Claim_C11_HandlesBuiltOnce ==
    \A kind \in DOMAIN built : built[kind] <= 1

\* a body the create handler is specified to accept: fileName and fileType
\* non-empty strings, fileSize an integer or a string that reads as one
NonEmptyString(v) == v.kind = "str" /\ v.s # <<>>
IntegerValued(v) == v.kind = "int" \/ (v.kind = "str" /\ ParseInt(v.s).err = "")
WellFormedCreate(b) ==
    /\ b.shape = "object"
    /\ NonEmptyString(b.obj["fileName"])
    /\ NonEmptyString(b.obj["fileType"])
    /\ IntegerValued(b.obj["fileSize"])

\* C12: an authenticated create whose fileName and fileType are non-empty
\* strings and whose fileSize parses as an integer (0, negative integers and
\* numeric strings included) is never answered 400: the handler goes on to the
\* store writes and answers 201 when the relational insert succeeds.
Claim_C12_CreateAcceptsWellFormed ==
    \A e \in Entries :
        (e.op = "create" /\ GateOpen(e) /\ WellFormedCreate(e.req.body)) =>
            /\ e.resp.status # 400
            /\ e.calls # <<>>
            /\ (Made(e, {"sql.insert"}) # {} /\ Failed(e, {"sql.insert"}) = {})
                  => e.resp.status = 201

\* the id and the allow-listed fields of an update body
Accepted(id, body) ==
    [k \in Keys |-> IF k = "id" THEN JStr(<<id>>)
                    ELSE IF k \in AllowList THEN body[k] ELSE Absent]
AllCallsOk(e) == \A i \in 1..Len(e.calls) : e.calls[i].ok

\* C13: an update of an id absent from both stores, with every store call
\* succeeding and a body holding an allow-listed key, is answered 200 with the
\* id and the accepted fields; the table still has no row of the id, the
\* document store has gained the record {id and accepted fields} and nothing
\* else, and a get of the id is then answered 200.
Thm_C13_UpdateAbsentCreatesShell ==
    [][(Served /\ Newest.op = "update" /\ GateOpen(Newest) /\ Newest.req.id # ""
               /\ Newest.req.body.shape = "object"
               /\ KeysOf(Newest.req.body.obj) \cap AllowList # {}
               /\ AllCallsOk(Newest)
               /\ DocsOf(Newest.req.id) = {} /\ RowsOf(Newest.req.id) = {}) =>
        LET id == Newest.req.id
            shell == Accepted(id, Newest.req.body.obj)
        IN  /\ Newest.resp.status = 200
            /\ Newest.resp.obj = shell
            /\ sql' = sql
            /\ cosmos' = cosmos \cup {shell}
            /\ GetMain(API_KEY, Stores', Request(Newest.req.api_key, id, NoBody), {}).resp.status
                  = 200]_vars

\* a get answered 200 for an id that was never created and has no row: its
\* document is the shell an update left
Wit_C13_UpdateAbsentCreatesShell ==
    \E e \in Entries :
        /\ e.op = "get" /\ e.resp.status = 200
        /\ e.req.id \notin issued
        /\ RowsOf(e.req.id) = {}
        /\ \E d \in DocsOf(e.req.id) : e.resp.obj = d /\ d["fileName"] = Absent

\* the document and the row agree on a field the claim lists
MirrorFields ==
    [fileName |-> "file_name", fileType |-> "file_type", fileSize |-> "file_size",
     blobUrl |-> "blob_url"]
Mirrors(d, r) ==
    /\ d["id"] = r.id
    /\ \A k \in DOMAIN MirrorFields : d[k] = r[MirrorFields[k]]
    /\ d["status"] # Absent => d["status"] = r.status

\* C14: in a sequential execution of create, update and delete requests in
\* which no store call fails, after each request every id with a relational row
\* has a document, and the two agree on fileName, fileType, fileSize and blobUrl,
\* and on status whenever the document defines it.
Thm_C14_MirrorConsistency ==
    \A r \in sql : \E d \in cosmos : Mirrors(d, r)

\* an asset whose name and status were updated after its creation, next to an
\* asset whose document has no status
Wit_C14_MirrorConsistency ==
    /\ \E r \in sql, d \in cosmos :
          /\ Mirrors(d, r)
          /\ d["status"] = Done
          /\ d["fileName"] = JStr(<<"c">>)
    /\ \E r \in sql, d \in cosmos : Mirrors(d, r) /\ d["status"] = Absent

\* thread t has answered an update and thread u a delete of the same id, the
\* two requests began while the asset had its row and its document, they
\* overlapped, and the update's upsert landed after the delete's document delete
UpsertAfterDelete(t, u) ==
    /\ pc[t].op = "update" /\ pc[t].at = "done"
    /\ pc[u].op = "delete" /\ pc[u].at = "done"
    /\ pc[u].id = pc[t].id
    /\ pc[t].existed /\ pc[u].existed
    /\ pc[u].n \in pc[t].late

\* C15: when an update(id) and a delete(id) of an existing asset run
\* concurrently with no store failure and the update's document upsert lands
\* after the delete's document delete, both are answered 200, the update's
\* response carries the asset's data, the document store is left with a record
\* of the id while the table has no row of it, and a later get(id) is answered
\* 200; the interleaving is reachable (the witness).
Thm_C15_UpdateDeleteRace ==
    \A t \in Threads, u \in Threads :
        UpsertAfterDelete(t, u) =>
            LET id == pc[t].id
            IN  /\ pc[t].resp.status = 200
                /\ pc[u].resp.status = 200
                /\ pc[t].resp.obj["id"] = JStr(<<id>>)
                /\ \A k \in AllowList :
                      pc[t].fields[k] # Absent => pc[t].resp.obj[k] = pc[t].fields[k]
                /\ DocsOf(id) = {pc[t].resp.obj}
                /\ RowsOf(id) = {}
                /\ GetMain(API_KEY, Stores, Request(API_KEY, id, NoBody), {}).resp.status = 200

\* the race has happened, and the update had read the document before the
\* delete removed it: the record left behind has the deleted asset's fields
Wit_C15_UpdateDeleteRace ==
    \E t \in Threads, u \in Threads :
        /\ UpsertAfterDelete(t, u)
        /\ pc[t].fields = Dict1("status", Done)
        /\ \E d \in DocsOf(pc[t].id) : d["fileName"] # Absent /\ d["status"] = Done
        /\ RowsOf(pc[t].id) = {}
        /\ blobs = {}

====
